---- MODULE Spec2Model ----
(***************************************************************************)
(* Model of the goonly video pipeline: the video route (POST), the speech  *)
(* synthesis client with its retry loop (generateAudio), the alignment     *)
(* client (getWhisperWordTimings) and the timing estimators                *)
(* (estimateWordTiming, uniform and weighted, and the legacy inline        *)
(* words-per-second fallback).                                             *)
(*                                                                         *)
(* Times are JavaScript numbers in the source.  They are modelled as exact *)
(* rationals <<numerator, denominator>> in milliseconds; a zero            *)
(* denominator stands for Infinity (<<1,0>>), -Infinity (<<-1,0>>) and NaN *)
(* (<<0,0>>), which is what a JavaScript division by zero yields.          *)
(***************************************************************************)
EXTENDS Integers, Sequences, FiniteSets, TLC

\* ------------------------------------------------------------------------
\* Bounds of the model
\* ------------------------------------------------------------------------
MaxLen == 4
MaxTurns == 2
\* At most MaxFaults probes and alignments of one request go wrong
MaxFaults == 2

\* ------------------------------------------------------------------------
\* Rational arithmetic standing for JavaScript number arithmetic
\* ------------------------------------------------------------------------
Abs(n) == IF n < 0 THEN -n ELSE n

RECURSIVE GCD(_, _)
GCD(a, b) == IF b = 0 THEN a ELSE GCD(b, a % b)

Sign(n) == IF n > 0 THEN 1 ELSE IF n < 0 THEN -1 ELSE 0

Rat(n, d) ==
    IF d = 0 THEN <<Sign(n), 0>>
    ELSE LET g == GCD(Abs(n), Abs(d))
         IN  <<(Sign(d) * n) \div g, Abs(d) \div g>>

FromInt(n) == <<n, 1>>
IsFinite(x) == x[2] # 0
RAdd(x, y) == Rat(x[1] * y[2] + y[1] * x[2], x[2] * y[2])
RSub(x, y) == Rat(x[1] * y[2] - y[1] * x[2], x[2] * y[2])
RMul(x, y) == Rat(x[1] * y[1], x[2] * y[2])
RDiv(x, y) == Rat(x[1] * y[2], x[2] * y[1])
RLe(x, y) == IsFinite(x) /\ IsFinite(y) /\ x[1] * y[2] <= y[1] * x[2]
RLt(x, y) == IsFinite(x) /\ IsFinite(y) /\ x[1] * y[2] < y[1] * x[2]

\* ------------------------------------------------------------------------
\* Texts: sequences of one-character strings
\* ------------------------------------------------------------------------
\* The alphabet holds one representative of each class of characters the
\* estimators distinguish: a vowel, a consonant, a sentence-final mark, a
\* pause mark, the space (the separator of split) and another whitespace.
Space == " "
Tab == "\t"
Whitespace == {Space, Tab}
Vowels == {"a"}
SentencePunct == {"."}
PausePunct == {","}
Alphabet == {"a", "b", ".", ",", Space, Tab}

ExampleText == <<"a", " ", "b", "b", " ", "c", "c", "c">>

SeqsUpTo(S, n) == UNION {[1..k -> S] : k \in 0..n}

\* String.prototype.split(' '): one token per space-separated piece,
\* empty pieces included.
RECURSIVE SplitFrom(_, _, _, _)
SplitFrom(s, i, cur, acc) ==
    IF i > Len(s) THEN Append(acc, cur)
    ELSE IF s[i] = Space THEN SplitFrom(s, i + 1, <<>>, Append(acc, cur))
    ELSE SplitFrom(s, i + 1, Append(cur, s[i]), acc)

SplitOnSpace(s) == SplitFrom(s, 1, <<>>, <<>>)

\* String.prototype.trim(): leading and trailing whitespace removed.
RECURSIVE TrimLeft(_)
TrimLeft(w) ==
    IF w # <<>> /\ Head(w) \in Whitespace THEN TrimLeft(Tail(w)) ELSE w

RECURSIVE TrimRight(_)
TrimRight(w) ==
    IF w # <<>> /\ w[Len(w)] \in Whitespace
    THEN TrimRight(SubSeq(w, 1, Len(w) - 1)) ELSE w

Trim(w) == TrimRight(TrimLeft(w))

\* Variant: the blank tokens kept
SplitWords_NoFilter(text) == SplitOnSpace(text)

\* text.split(' ').filter(word => word.trim() !== '')
SplitWords(text) == SelectSeq(SplitOnSpace(text), LAMBDA w : Trim(w) # <<>>)

\* ------------------------------------------------------------------------
\* Timing estimators
\* ------------------------------------------------------------------------
\* words.map with the running currentTime: word k starts where word k-1
\* ended and lasts share[k].
RECURSIVE Accumulate(_, _, _, _)
Accumulate(words, share, k, currentTime) ==
    IF k > Len(words) THEN <<>>
    ELSE <<[word |-> words[k],
            start |-> currentTime,
            end |-> RAdd(currentTime, share[k])]>>
         \o Accumulate(words, share, k + 1, RAdd(currentTime, share[k]))

\* estimateWordTiming, uniform policy (services/audio.ts)
EstimateUniform(text, duration) ==
    LET words == SplitWords(text)
    IN  IF Len(words) = 0 THEN <<>>
        ELSE LET avgTimePerWord == RDiv(duration, FromInt(Len(words)))
             IN  Accumulate(words, [k \in 1..Len(words) |-> avgTimePerWord],
                            1, FromInt(0))

RECURSIVE CountIn(_, _)
CountIn(w, S) ==
    IF w = <<>> THEN 0
    ELSE (IF Head(w) \in S THEN 1 ELSE 0) + CountIn(Tail(w), S)

Max(a, b) == IF a >= b THEN a ELSE b

\* The relative duration of one word, in milliseconds.
WordWeight(word) ==
    LET last == IF word = <<>> THEN "" ELSE word[Len(word)]
        vowelMatches == CountIn(word, Vowels)
        syllables == IF vowelMatches > 0 THEN Max(1, vowelMatches) ELSE 1
    IN  300 + Len(word) * 50
        + (IF last \in SentencePunct THEN 300
           ELSE IF last \in PausePunct THEN 150 ELSE 0)
        + syllables * 100

RECURSIVE SumSeq(_)
SumSeq(s) == IF s = <<>> THEN 0 ELSE Head(s) + SumSeq(Tail(s))

\* Variant: the shares scaled by the word count instead of their total
EstimateWeighted_ScaleByCount(text, duration) ==
    LET words == SplitWords(text)
        wordDurations == [k \in 1..Len(words) |-> WordWeight(words[k])]
        scaleFactor == RDiv(duration, FromInt(Len(words) * 300))
    IN  Accumulate(words,
                   [k \in 1..Len(words) |->
                       RMul(FromInt(wordDurations[k]), scaleFactor)],
                   1, FromInt(0))

\* estimateWordTiming, weighted policy (no guard for an empty word list)
EstimateWeighted(text, duration) ==
    LET words == SplitWords(text)
        wordDurations == [k \in 1..Len(words) |-> WordWeight(words[k])]
        totalEstimated == SumSeq(wordDurations)
        scaleFactor == RDiv(duration, FromInt(totalEstimated))
    IN  Accumulate(words,
                   [k \in 1..Len(words) |->
                       RMul(FromInt(wordDurations[k]), scaleFactor)],
                   1, FromInt(0))

\* The inline fallback of the upload-based route: words-per-second timing
\* pushed straight onto the word timeline.
LegacyFallback(text, duration, currentTime, character, confidence) ==
    LET words == SplitWords(text)
        wordsPerSecond == RDiv(FromInt(Len(words)), duration)
    IN  [k \in 1..Len(words) |->
            [text |-> words[k],
             startTime |-> RAdd(currentTime,
                                RDiv(FromInt(k - 1), wordsPerSecond)),
             endTime |-> RAdd(currentTime, RDiv(FromInt(k), wordsPerSecond)),
             character |-> character,
             confidence |-> confidence]]

\* ------------------------------------------------------------------------
\* Program constants
\* ------------------------------------------------------------------------
BATCH_SIZE == 2
GAP_DURATION == 200
TAIL_BUFFER == 1000
FALLBACK_DURATION == 3000
COMBINE_GAP_DURATION == 200
COOLDOWN_MS == 2000
DEFAULT_RETRIES == 3

\* Bound of the retries argument in the stand-alone generateAudio runs
MaxRetries == 3

Characters == {"stewie", "peter"}

\* ------------------------------------------------------------------------
\* Inputs
\* ------------------------------------------------------------------------
Line1 == <<"a", " ", "b">>
Line2 == <<"b", ".">>
Line3 == <<"a", ",", " ", " ", "b", "b">>
LineBlank == <<" ">>

\* JavaScript values of the fields of a media cue: a number, null, or
\* undefined (the field is absent)
NaN == <<0, 0>>
Num(ms) == [tag |-> "number", val |-> FromInt(ms)]
Null == [tag |-> "null"]
Undefined == [tag |-> "undefined"]

\* The operand of a numeric + : null counts as 0, undefined as NaN
ToNumber(v) ==
    IF v.tag = "number" THEN v.val
    ELSE IF v.tag = "null" THEN FromInt(0)
    ELSE NaN

\* A cue as the ImageOverlay interface declares it (startTime, duration)
TypedCue(filename, startTime, duration, description) ==
    [filename |-> filename, triggerWord |-> Undefined,
     startTime |-> Num(startTime), duration |-> Num(duration),
     description |-> description]

\* A cue as the prompt of the dialogue generator asks for it: a
\* triggerWord, no startTime, and a duration that is a number for an image
\* and null or absent for a video
GeneratedCue(filename, triggerWord, duration, description) ==
    [filename |-> filename, triggerWord |-> triggerWord,
     startTime |-> Undefined, duration |-> duration,
     description |-> description]

Turns == {[stewie |-> Line1, peter |-> Line2,
           imageOverlays |->
              <<TypedCue("x.png", 500, 2000, "typed"),
                TypedCue("missing.png", 0, 2000, "unresolved"),
                GeneratedCue("x.png", "b", Num(4000), "generated")>>],
          [stewie |-> Line3, peter |-> LineBlank,
           imageOverlays |->
              <<GeneratedCue("v.mp4", "bb", Null, "video"),
                GeneratedCue("x.png", "a,", Undefined, "no duration"),
                TypedCue("x.png", 0, 3000, "typed at 0")>>]}

\* The mediaFiles of the request body: none, or an image and a video
Uploads ==
    {<<>>,
     <<[filename |-> "x.png", type |-> "image"],
       [filename |-> "v.mp4", type |-> "video"]>>}

\* Dialogues of up to MaxTurns turns in which adjacent turns differ
Conversations ==
    {conv \in SeqsUpTo(Turns, MaxTurns) :
        \A k \in 1..(Len(conv) - 1) : conv[k] # conv[k + 1]}

\* Durations the container metadata of a synthesized clip may report, the
\* time of the audio the clip holds (0: a clip without samples, whose
\* metadata carries no duration).
MetadataDurations == {0, 1000}

\* Reasons for which one attempt of generateAudio fails
FailKinds == {"status", "empty", "abort", "network"}

\* word_segments the alignment backend may answer with.  The code takes
\* them as they come: the second answer has a word of zero length and a
\* word that ends 0.2 s after the end of a 1 s clip.
WhisperSegments ==
    {<<[word |-> <<" ", "a">>, start |-> FromInt(0), end |-> FromInt(400)],
       [word |-> <<" ">>, start |-> FromInt(400), end |-> FromInt(500)],
       [word |-> <<"b", ".">>, start |-> FromInt(500), end |-> FromInt(900)]>>,
     <<[word |-> <<"a">>, start |-> FromInt(0), end |-> FromInt(0)],
       [word |-> <<"b", ".">>, start |-> FromInt(500), end |-> FromInt(1200)]>>}

\* Outcomes of one call to the alignment backend: the fetch rejects, a
\* non-2xx status, a body that is not JSON, JSON without word_segments, or
\* JSON with word_segments (possibly of length 0).
AlignFailures == {"network", "status", "badjson", "missing"}

AlignOutcomes ==
    [kind : AlignFailures, segs : {<<>>}]
    \cup [kind : {"ok"}, segs : WhisperSegments \cup {<<>>}]

\* Inputs of the stand-alone estimator runs
EstTexts == SeqsUpTo(Alphabet, MaxLen) \cup {ExampleText}
EstDurations == {FromInt(0), FromInt(1000), FromInt(3000)}

VARIABLES
    conversation,       \* request body: the dialogue turns
    pc,                 \* position of the POST handler
    audioTasks,         \* POST: audioTasks
    batchStart,         \* POST: loop variable i of the batch loop (0-based)
    calls,              \* the generateAudio calls of the current batch
    settled,            \* indices of the calls of the batch, in the order
                        \* in which they resolved
    audioResults,       \* POST: audioResults
    audioFiles,         \* POST: audioFiles
    currentTime,        \* POST: currentTime, the running clock
    characterTimeline,  \* POST: characterTimeline
    wordTimeline,       \* POST: wordTimeline
    lastAlign,          \* the source of the last aligned segment's word timings
    totalDuration,      \* POST: totalDuration handed to the renderer
    invoked,            \* which of combine / subtitle / render were invoked
    response,           \* the response of the request
    faults,             \* probes and alignments that went wrong so far
    combinedAudio,      \* the track built by combineAudioFiles
    mediaFiles,         \* request body: the uploaded media files
    savedMediaFiles,    \* POST: savedMediaFiles (the filenames)
    imageOverlays,      \* POST: imageOverlays handed to the renderer
    scratch,            \* the scratch files of the request that are on disk
    completed,          \* the steps of the tail that ended well
    sleep,              \* the delay of the timer the handler awaits (0: none)
    subtitles,          \* the Dialogue cues of the subtitle file
    est,                \* state of a stand-alone run of the estimators
    server,             \* the server under two requests: clock, temp files
    upload              \* state of a request to the upload-based route

vars == <<conversation, pc, audioTasks, batchStart, calls, settled,
          audioResults, audioFiles, currentTime, characterTimeline,
          wordTimeline, lastAlign, totalDuration, invoked, response, faults,
          combinedAudio, mediaFiles, savedMediaFiles, imageOverlays, scratch,
          completed, sleep, subtitles, est, server, upload>>

requestVars == <<conversation, pc, audioTasks, batchStart, calls, settled,
                 audioResults, audioFiles, currentTime, characterTimeline,
                 wordTimeline, lastAlign, totalDuration, invoked, response,
                 faults, combinedAudio, mediaFiles, savedMediaFiles,
                 imageOverlays, scratch, completed, sleep, subtitles>>

NoResponse == [kind |-> "none"]
NoClip == [none |-> TRUE]
NoError == [template |-> "none"]
NoAlign == [segment |-> 0]
EstIdle == [pc |-> "idle"]
Unset == <<-1, 1>>

\* ------------------------------------------------------------------------
\* generateAudio
\* ------------------------------------------------------------------------
\* The call right after it issued the fetch of attempt 0.  attemptsMade
\* counts the fetches issued so far, timedOut tells whether one of them was
\* aborted by the 120 s timer, lastFailure is the error caught last.
NewCall(text, character, retries) ==
    [text |-> text, character |-> character, retries |-> retries,
     attempt |-> 0, st |-> "fetching", waitTime |-> 0,
     result |-> NoClip, error |-> NoError,
     attemptsMade |-> 1, timedOut |-> FALSE, lastFailure |-> "none"]

\* Variant: the duration of the metadata taken as it is
ProbedDuration_KeepZero(actual, probeErr) ==
    IF probeErr THEN FALLBACK_DURATION ELSE actual

\* metadata.format.duration || 3.0, or 3.0 when ffprobe reports an error
ProbedDuration(actual, probeErr) ==
    IF probeErr THEN FALLBACK_DURATION
    ELSE IF actual = 0 THEN FALLBACK_DURATION ELSE actual

\* The attempt got a 2xx answer with a non-empty body: the call returns.
CallResolved(c, actual, probeErr) ==
    [c EXCEPT !.st = "resolved",
              !.result = [buffer |-> [actual |-> actual],
                          duration |-> ProbedDuration(actual, probeErr),
                          character |-> c.character,
                          text |-> c.text]]

\* Variant: the message counts the retries, not the attempts
FinalError_CountsRetries(c, kind) ==
    IF kind = "abort"
    THEN [template |-> "TTS timeout", character |-> c.character]
    ELSE [template |-> "Failed to generate", character |-> c.character,
          attempts |-> c.retries, cause |-> kind]

\* Variant: no distinct error for a timeout
FinalError_NoTimeout(c, kind) ==
    [template |-> "Failed to generate", character |-> c.character,
     attempts |-> c.retries + 1, cause |-> kind]

\* The error thrown once attempt = retries
FinalError(c, kind) ==
    IF kind = "abort"
    THEN [template |-> "TTS timeout", character |-> c.character]
    ELSE [template |-> "Failed to generate", character |-> c.character,
          attempts |-> c.retries + 1, cause |-> kind]

\* Variant: the exponent is the attempt number
WaitTime_FromAttempt(attempt) == (2 ^ attempt) * 1000

\* Math.pow(2, attempt + 1) * 1000
WaitTime(attempt) == (2 ^ (attempt + 1)) * 1000

\* Variant: the loop gives up one attempt early
CallFailed_OffByOne(c, kind) ==
    LET c1 == [c EXCEPT !.timedOut = c.timedOut \/ kind = "abort",
                        !.lastFailure = kind]
    IN  IF c.attempt + 1 >= c.retries
        THEN [c1 EXCEPT !.st = "rejected", !.error = FinalError(c, kind)]
        ELSE [c1 EXCEPT !.st = "backoff", !.waitTime = WaitTime(c.attempt)]

\* The catch block of one failed attempt
CallFailed(c, kind) ==
    LET c1 == [c EXCEPT !.timedOut = c.timedOut \/ kind = "abort",
                        !.lastFailure = kind]
    IN  IF c.attempt = c.retries
        THEN [c1 EXCEPT !.st = "rejected", !.error = FinalError(c, kind)]
        ELSE [c1 EXCEPT !.st = "backoff", !.waitTime = WaitTime(c.attempt)]

\* The backoff timer fired: next iteration of the for loop, next fetch.
CallRetried(c) ==
    [c EXCEPT !.st = "fetching", !.attempt = c.attempt + 1,
              !.waitTime = 0, !.attemptsMade = c.attemptsMade + 1,
              !.lastFailure = "none"]

\* ------------------------------------------------------------------------
\* POST /api/video
\* ------------------------------------------------------------------------
\* Variant: the two lines of a turn pushed in the other order
RECURSIVE BuildTasks_PeterFirst(_)
BuildTasks_PeterFirst(conv) ==
    IF conv = <<>> THEN <<>>
    ELSE <<[text |-> Head(conv).peter, character |-> "peter"],
           [text |-> Head(conv).stewie, character |-> "stewie"]>>
         \o BuildTasks_PeterFirst(Tail(conv))

\* conversation.forEach(turn => { push stewie; push peter })
RECURSIVE BuildTasks(_)
BuildTasks(conv) ==
    IF conv = <<>> THEN <<>>
    ELSE <<[text |-> Head(conv).stewie, character |-> "stewie"],
           [text |-> Head(conv).peter, character |-> "peter"]>>
         \o BuildTasks(Tail(conv))

Min(a, b) == IF a <= b THEN a ELSE b

\* audioTasks.slice(i, i + BATCH_SIZE).map(task => generateAudio(..., 3))
StartBatch(tasks, i) ==
    [k \in 1..(Min(i + BATCH_SIZE, Len(tasks)) - i) |->
        NewCall(tasks[i + k].text, tasks[i + k].character, DEFAULT_RETRIES)]

\* Variant: the results gathered in the order in which the calls resolved
BatchResults_CompletionOrder(cs, order) ==
    [k \in 1..Len(cs) |-> cs[order[k]].result]

\* await Promise.all(batchPromises): the results in the order of the
\* promises, whatever the order in which they resolved.
BatchResults(cs, order) == [k \in 1..Len(cs) |-> cs[k].result]

AllResolved(cs) == \A k \in 1..Len(cs) : cs[k].st = "resolved"

ErrorResponse(message) ==
    [kind |-> "error", status |-> 500,
     error |-> "Failed to process video", details |-> message]

\* The scratch files of the request: the session directory
\* temp/<sessionId>, and in it the saved uploads (by position in
\* mediaFiles), audio_<i>.wav, combined_audio.wav, subtitles.ass and
\* output.mp4.
ScratchFile(kind, index) == [kind |-> kind, index |-> index]
TempDir == ScratchFile("dir", 0)
CombinedAudioPath == ScratchFile("combined", 0)
SubtitlePath == ScratchFile("subtitle", 0)
OutputPath == ScratchFile("output", 0)

MediaPaths(files) ==
    {ScratchFile("media", k) :
        k \in {j \in 1..Len(files) : files[j].type = "image"}}

\* The uploads of type image are written to the temp directory and
\* entered into savedMediaFiles under their filename.
SaveMediaFiles(files) ==
    {files[k].filename : k \in {j \in 1..Len(files) : files[j].type = "image"}}

\* The request arrives: validation, uploads saved, task list, first batch
\* issued.
Receive ==
    /\ pc = "received"
    /\ IF Len(conversation) = 0
       THEN /\ pc' = "responded"
            /\ response' =
                 ErrorResponse([template |-> "No conversation provided"])
            /\ UNCHANGED <<audioTasks, calls, savedMediaFiles, scratch>>
       ELSE /\ savedMediaFiles' = SaveMediaFiles(mediaFiles)
            /\ scratch' = {TempDir} \cup MediaPaths(mediaFiles)
            /\ audioTasks' = BuildTasks(conversation)
            /\ calls' = StartBatch(audioTasks', 0)
            /\ pc' = "synth"
            /\ UNCHANGED response
    /\ UNCHANGED <<conversation, batchStart, settled, audioResults,
                   audioFiles, currentTime, characterTimeline, wordTimeline,
                   lastAlign, totalDuration, invoked, faults, combinedAudio,
                   mediaFiles, imageOverlays, completed, sleep, subtitles,
                   est, server, upload>>

\* What goes wrong in the probe of a clip: ffprobe fails, or the metadata
\* carries no duration.
ProbeFaults(actual, probeErr) ==
    (IF actual = 0 THEN 1 ELSE 0) + (IF probeErr THEN 1 ELSE 0)

\* Variant: the delay awaited after every batch, the last one included
NeedsCooldown_AfterEveryBatch(i, n) == i < n

\* if (i + BATCH_SIZE < audioTasks.length): the 2 s delay is awaited
\* unless the batch that started at i was the last one.
NeedsCooldown(i, n) == i + BATCH_SIZE < n

\* One attempt of call i is answered with audio; if that resolves the
\* awaited batch, the handler collects the batch results and goes on (the
\* calls of the batch have returned and are gone).
AttemptSucceeds(i, actual, probeErr) ==
    /\ i \in 1..Len(calls)
    /\ calls[i].st = "fetching"
    /\ faults + ProbeFaults(actual, probeErr) <= MaxFaults
    /\ faults' = faults + ProbeFaults(actual, probeErr)
    /\ LET resolved ==
             [calls EXCEPT ![i] = CallResolved(calls[i], actual, probeErr)]
           order == Append(settled, i)
       IN
       IF pc = "synth" /\ AllResolved(resolved)
       THEN /\ audioResults' = audioResults \o BatchResults(resolved, order)
            /\ calls' = <<>>
            /\ settled' = order
            /\ IF NeedsCooldown(batchStart, Len(audioTasks))
               THEN pc' = "cooldown" /\ sleep' = COOLDOWN_MS
               ELSE pc' = "timeline" /\ sleep' = 0
       ELSE /\ calls' = resolved
            /\ settled' = order
            /\ UNCHANGED <<audioResults, pc, sleep>>
    /\ UNCHANGED <<conversation, audioTasks, batchStart, audioFiles,
                   currentTime, characterTimeline, wordTimeline, lastAlign,
                   totalDuration, invoked, response, combinedAudio,
                   mediaFiles, savedMediaFiles, imageOverlays, scratch,
                   completed, subtitles, est, server, upload>>

\* Variant: every rejection answers the request, also a later one
AttemptFails_EveryRejectionAnswers(i, kind) ==
    /\ i \in 1..Len(calls)
    /\ calls[i].st = "fetching"
    /\ calls' = [calls EXCEPT ![i] = CallFailed(calls[i], kind)]
    /\ IF calls'[i].st = "rejected"
       THEN /\ pc' = "responded"
            /\ response' = ErrorResponse(calls'[i].error)
       ELSE UNCHANGED <<pc, response>>
    /\ UNCHANGED <<conversation, audioTasks, batchStart, settled,
                   audioResults, audioFiles, currentTime, characterTimeline,
                   wordTimeline, lastAlign, totalDuration, invoked, faults,
                   combinedAudio, mediaFiles, savedMediaFiles, imageOverlays,
                   scratch, completed, sleep, subtitles, est, server, upload>>

\* One attempt of call i fails; on the last attempt the call rejects, and
\* the first rejection of the awaited batch takes the handler to its catch.
AttemptFails(i, kind) ==
    /\ i \in 1..Len(calls)
    /\ calls[i].st = "fetching"
    /\ calls' = [calls EXCEPT ![i] = CallFailed(calls[i], kind)]
    /\ IF pc = "synth" /\ calls'[i].st = "rejected"
       THEN /\ pc' = "responded"
            /\ response' = ErrorResponse(calls'[i].error)
       ELSE UNCHANGED <<pc, response>>
    /\ UNCHANGED <<conversation, audioTasks, batchStart, settled,
                   audioResults, audioFiles, currentTime, characterTimeline,
                   wordTimeline, lastAlign, totalDuration, invoked, faults,
                   combinedAudio, mediaFiles, savedMediaFiles, imageOverlays,
                   scratch, completed, sleep, subtitles, est, server, upload>>

\* The backoff delay of call i is over: the next attempt is issued.
BackoffElapses(i) ==
    /\ i \in 1..Len(calls)
    /\ calls[i].st = "backoff"
    /\ calls' = [calls EXCEPT ![i] = CallRetried(calls[i])]
    /\ UNCHANGED <<conversation, pc, audioTasks, batchStart, settled,
                   audioResults, audioFiles, currentTime, characterTimeline,
                   wordTimeline, lastAlign, totalDuration, invoked, response,
                   faults, combinedAudio, mediaFiles, savedMediaFiles,
                   imageOverlays, scratch, completed, sleep, subtitles, est,
                   server, upload>>

\* The 2 s delay between batches is over: the next batch is issued.
CooldownElapses ==
    /\ pc = "cooldown"
    /\ batchStart' = batchStart + BATCH_SIZE
    /\ calls' = StartBatch(audioTasks, batchStart')
    /\ settled' = <<>>
    /\ sleep' = 0
    /\ pc' = "synth"
    /\ UNCHANGED <<conversation, audioTasks, audioResults, audioFiles,
                   currentTime, characterTimeline, wordTimeline, lastAlign,
                   totalDuration, invoked, response, faults, combinedAudio,
                   mediaFiles, savedMediaFiles, imageOverlays, scratch,
                   completed, subtitles, est, server, upload>>

\* Variant: the clock advanced by the duration only
AdvanceClock_NoGap(clock, duration) == RAdd(clock, FromInt(duration))

\* currentTime += audio.duration + GAP_DURATION
AdvanceClock(clock, duration) ==
    RAdd(clock, FromInt(duration + GAP_DURATION))

\* One iteration of the loop that saves the clips and builds the timeline.
TimelineStep ==
    /\ pc = "timeline"
    /\ LET i == Len(audioFiles) + 1
           audio == audioResults[i]
       IN  /\ audioFiles' = Append(audioFiles,
                 [fileName |-> i - 1,
                  buffer |-> audio.buffer,
                  character |-> audio.character,
                  text |-> audio.text,
                  duration |-> FromInt(audio.duration),
                  startTime |-> currentTime])
           /\ scratch' = scratch \cup {ScratchFile("audio", i - 1)}
           /\ currentTime' = AdvanceClock(currentTime, audio.duration)
           /\ pc' = IF i = Len(audioResults) THEN "align" ELSE "timeline"
    /\ UNCHANGED <<conversation, audioTasks, batchStart, calls, settled,
                   audioResults, characterTimeline, wordTimeline, lastAlign,
                   totalDuration, invoked, response, faults, combinedAudio,
                   mediaFiles, savedMediaFiles, imageOverlays, completed,
                   sleep, subtitles, est, server, upload>>

\* getAudioDuration: ffprobe of the saved clip, 3.0 on error or when the
\* metadata carries no duration.
GetAudioDuration(buffer, probeErr) ==
    IF probeErr THEN FromInt(FALLBACK_DURATION)
    ELSE IF buffer.actual = 0 THEN FromInt(FALLBACK_DURATION)
    ELSE FromInt(buffer.actual)

\* Variant: an answer with zero word segments taken as a real alignment
GetWhisperWordTimings_AcceptEmpty(audio, outcome, probeErr) ==
    IF outcome.kind = "ok"
    THEN [raised |-> FALSE, source |-> "whisper",
          timings |-> [k \in 1..Len(outcome.segs) |->
                          [word |-> Trim(outcome.segs[k].word),
                           start |-> outcome.segs[k].start,
                           end |-> outcome.segs[k].end]]]
    ELSE [raised |-> FALSE, source |-> "estimator",
          timings |-> EstimateUniform(audio.text,
                          GetAudioDuration(audio.buffer, probeErr))]

\* getWhisperWordTimings: the backend's word segments (trimmed) when it
\* returned at least one, the estimator's output in every other case.
GetWhisperWordTimings(audio, outcome, probeErr) ==
    IF outcome.kind = "ok" /\ Len(outcome.segs) > 0
    THEN [raised |-> FALSE, source |-> "whisper",
          timings |-> [k \in 1..Len(outcome.segs) |->
                          [word |-> Trim(outcome.segs[k].word),
                           start |-> outcome.segs[k].start,
                           end |-> outcome.segs[k].end]]]
    ELSE [raised |-> FALSE, source |-> "estimator",
          timings |-> EstimateUniform(audio.text,
                          GetAudioDuration(audio.buffer, probeErr))]

\* The try/catch of the route around getWhisperWordTimings
AlignSegment(audio, outcome, probeErr) ==
    LET r == GetWhisperWordTimings(audio, outcome, probeErr)
    IN  IF r.raised
        THEN [raised |-> FALSE, source |-> "route-estimator",
              timings |-> EstimateUniform(audio.text, audio.duration)]
        ELSE r

\* Variant: every word pushed, blank or not
GlobalWords_KeepBlank(audio, timings) ==
    [k \in 1..Len(timings) |->
        [text |-> timings[k].word,
         startTime |-> RAdd(audio.startTime, timings[k].start),
         endTime |-> RAdd(audio.startTime, timings[k].end),
         character |-> audio.character,
         segment |-> audio.fileName + 1]]

\* wordTimings.forEach: blank words skipped, times shifted by the
\* segment's startTime.  The field segment is not in the source: it records
\* the index of the segment the word was produced for.
GlobalWords(audio, timings) ==
    LET kept == SelectSeq(timings, LAMBDA t : Trim(t.word) # <<>>)
    IN  [k \in 1..Len(kept) |->
            [text |-> kept[k].word,
             startTime |-> RAdd(audio.startTime, kept[k].start),
             endTime |-> RAdd(audio.startTime, kept[k].end),
             character |-> audio.character,
             segment |-> audio.fileName + 1]]

\* The backend answered with at least one word segment
Aligned(outcome) == outcome.kind = "ok" /\ Len(outcome.segs) > 0

\* What goes wrong in the alignment of a segment: the backend gives no
\* word segments, or the probe of the fallback fails.
AlignFaults(outcome, probeErr) ==
    (IF Aligned(outcome) THEN 0 ELSE 1) + (IF probeErr THEN 1 ELSE 0)

\* One iteration of the loop over audioFiles: visibility interval, word
\* timings of the segment, words pushed onto the global timeline.
AlignStep(outcome, probeErr) ==
    /\ pc = "align"
    /\ probeErr => ~Aligned(outcome)
    /\ faults + AlignFaults(outcome, probeErr) <= MaxFaults
    /\ faults' = faults + AlignFaults(outcome, probeErr)
    /\ LET i == Len(characterTimeline) + 1
           audio == audioFiles[i]
           r == AlignSegment(audio, outcome, probeErr)
       IN  /\ characterTimeline' = Append(characterTimeline,
                 [character |-> audio.character,
                  startTime |-> audio.startTime,
                  endTime |-> RAdd(audio.startTime, audio.duration)])
           /\ wordTimeline' = wordTimeline \o GlobalWords(audio, r.timings)
           /\ lastAlign' = [segment |-> i, outcome |-> outcome,
                            source |-> r.source, raised |-> r.raised,
                            timings |-> r.timings]
           /\ pc' = IF i = Len(audioFiles) THEN "plan" ELSE "align"
    /\ UNCHANGED <<conversation, audioTasks, batchStart, calls, settled,
                   audioResults, audioFiles, currentTime, totalDuration,
                   invoked, response, combinedAudio, mediaFiles,
                   savedMediaFiles, imageOverlays, scratch, completed, sleep,
                   subtitles, est, server, upload>>

\* Variant: the trailing gap kept
TotalDuration_KeepGap(clock) == RAdd(clock, FromInt(TAIL_BUFFER))

\* currentTime - GAP_DURATION + 1
TotalDuration(clock) ==
    RAdd(RSub(clock, FromInt(GAP_DURATION)), FromInt(TAIL_BUFFER))

\* audioFiles[conversationIndex * 2]?.startTime || 0
TurnStartTime(files, conversationIndex) ==
    IF conversationIndex < Len(files) /\ conversationIndex * 2 < Len(files)
    THEN LET t == files[conversationIndex * 2 + 1].startTime
         IN  IF IsFinite(t) /\ t # FromInt(0) THEN t ELSE FromInt(0)
    ELSE FromInt(0)

\* Variant: the end counted from the start of the turn
OverlayInterval_EndFromTurnStart(cue, turnStartTime) ==
    LET globalStartTime == RAdd(turnStartTime, ToNumber(cue.startTime))
        globalEndTime == RAdd(turnStartTime, ToNumber(cue.duration))
    IN  [imagePath |-> cue.filename,
         startTime |-> globalStartTime,
         endTime |-> globalEndTime,
         description |-> cue.description]

\* globalStartTime = turnStartTime + overlay.startTime,
\* globalEndTime = globalStartTime + overlay.duration
OverlayInterval(cue, turnStartTime) ==
    LET globalStartTime == RAdd(turnStartTime, ToNumber(cue.startTime))
        globalEndTime == RAdd(globalStartTime, ToNumber(cue.duration))
    IN  [imagePath |-> cue.filename,
         startTime |-> globalStartTime,
         endTime |-> globalEndTime,
         description |-> cue.description]

\* Variant: an interval for every cue, saved file or not
TurnOverlays_KeepUnresolved(cues, turnStartTime, saved) ==
    [k \in 1..Len(cues) |-> OverlayInterval(cues[k], turnStartTime)]

\* The overlays of one turn: one interval per cue whose filename is among
\* the saved media files (a file saved by the request is still there when
\* existsSync looks for it), none for the other cues.
TurnOverlays(cues, turnStartTime, saved) ==
    LET resolved == SelectSeq(cues, LAMBDA cue : cue.filename \in saved)
    IN  [k \in 1..Len(resolved) |->
            OverlayInterval(resolved[k], turnStartTime)]

\* The loop over the turns of the conversation, from turn
\* conversationIndex (0-based) on
RECURSIVE PlanOverlays(_, _, _, _)
PlanOverlays(conv, files, saved, conversationIndex) ==
    IF conversationIndex >= Len(conv) THEN <<>>
    ELSE TurnOverlays(conv[conversationIndex + 1].imageOverlays,
                      TurnStartTime(files, conversationIndex), saved)
         \o PlanOverlays(conv, files, saved, conversationIndex + 1)

\* Total duration, media overlays, check of the required assets,
\* combineAudioFiles invoked.
Plan(assetsPresent) ==
    /\ pc = "plan"
    /\ totalDuration' = TotalDuration(currentTime)
    /\ imageOverlays' =
          PlanOverlays(conversation, audioFiles, savedMediaFiles, 0)
    /\ IF assetsPresent
       THEN /\ invoked' = invoked \cup {"combine"}
            /\ pc' = "combine"
            /\ UNCHANGED response
       ELSE /\ pc' = "responded"
            /\ response' = ErrorResponse([template |-> "Asset not found"])
            /\ UNCHANGED invoked
    /\ UNCHANGED <<conversation, audioTasks, batchStart, calls, settled,
                   audioResults, audioFiles, currentTime, characterTimeline,
                   wordTimeline, lastAlign, faults, combinedAudio, mediaFiles,
                   savedMediaFiles, scratch, completed, sleep, subtitles, est,
                   server, upload>>

\* Variant: a silence appended after every clip, the last one included
RECURSIVE CombineAudioFiles_GapAfterEach(_, _)
CombineAudioFiles_GapAfterEach(files, i) ==
    IF i > Len(files) THEN <<>>
    ELSE <<[kind |-> "clip", index |-> i - 1,
            length |-> files[i].buffer.actual],
           [kind |-> "gap", index |-> i - 1,
            length |-> COMBINE_GAP_DURATION]>>
         \o CombineAudioFiles_GapAfterEach(files, i + 1)

\* combineAudioFiles: the inputs of the concat filter from clip i on, clip
\* [i:a] followed by the silence [gap i] unless it is the last clip.  A
\* clip takes the time of the audio it holds, a silence 0.2 s.
RECURSIVE CombineAudioFiles(_, _)
CombineAudioFiles(files, i) ==
    IF i > Len(files) THEN <<>>
    ELSE <<[kind |-> "clip", index |-> i - 1,
            length |-> files[i].buffer.actual]>>
         \o (IF i < Len(files)
             THEN <<[kind |-> "gap", index |-> i - 1,
                     length |-> COMBINE_GAP_DURATION]>>
             ELSE <<>>)
         \o CombineAudioFiles(files, i + 1)

\* combineAudioFiles settles; on success combined_audio.wav is there and
\* the subtitle file is being written.
CombineEnds(ok) ==
    /\ pc = "combine"
    /\ IF ok
       THEN /\ combinedAudio' = CombineAudioFiles(audioFiles, 1)
            /\ scratch' = scratch \cup {CombinedAudioPath}
            /\ invoked' = invoked \cup {"subtitle"}
            /\ completed' = completed \cup {"combine"}
            /\ pc' = "subtitle"
            /\ UNCHANGED response
       ELSE /\ pc' = "responded"
            /\ response' = ErrorResponse([template |-> "ffmpeg error"])
            /\ UNCHANGED <<invoked, combinedAudio, scratch, completed>>
    /\ UNCHANGED <<conversation, audioTasks, batchStart, calls, settled,
                   audioResults, audioFiles, currentTime, characterTimeline,
                   wordTimeline, lastAlign, totalDuration, faults, mediaFiles,
                   savedMediaFiles, imageOverlays, sleep, subtitles, est,
                   server, upload>>

\* formatAssTime: the time as H:MM:SS.cc, every part rounded down.  A
\* time that is not a number gives NaN in every part.
FormatAssTime(seconds) ==
    IF ~IsFinite(seconds)
    THEN [hours |-> "NaN", minutes |-> "NaN", secs |-> "NaN",
          centiseconds |-> "NaN"]
    ELSE LET ms == seconds[1] \div seconds[2]
         IN  [hours |-> ms \div 3600000,
              minutes |-> (ms % 3600000) \div 60000,
              secs |-> (ms % 60000) \div 1000,
              centiseconds |-> (ms % 1000) \div 10]

\* createSubtitleContent: the Dialogue lines of the [Events] section, one
\* per entry of the word timeline (the characters escaped in the text, a
\* backslash and the braces, are not in the alphabet of the texts).
CreateSubtitleContent(timeline) ==
    [k \in 1..Len(timeline) |->
        [start |-> FormatAssTime(timeline[k].startTime),
         end |-> FormatAssTime(timeline[k].endTime),
         style |-> IF timeline[k].character = "stewie" THEN "Stewie"
                   ELSE "Peter",
         text |-> Trim(timeline[k].text)]]

\* The write of subtitles.ass settles; on success createFinalVideo is
\* invoked.
SubtitleEnds(ok) ==
    /\ pc = "subtitle"
    /\ IF ok
       THEN /\ subtitles' = CreateSubtitleContent(wordTimeline)
            /\ scratch' = scratch \cup {SubtitlePath}
            /\ invoked' = invoked \cup {"render"}
            /\ completed' = completed \cup {"subtitle"}
            /\ pc' = "render"
            /\ UNCHANGED response
       ELSE /\ pc' = "responded"
            /\ response' = ErrorResponse([template |-> "write error"])
            /\ UNCHANGED <<invoked, scratch, completed, subtitles>>
    /\ UNCHANGED <<conversation, audioTasks, batchStart, calls, settled,
                   audioResults, audioFiles, currentTime, characterTimeline,
                   wordTimeline, lastAlign, totalDuration, faults,
                   combinedAudio, mediaFiles, savedMediaFiles, imageOverlays,
                   sleep, est, server, upload>>

\* Cleanup temp files: the clips, the saved uploads, the output, the
\* combined audio and the subtitle file are unlinked, then the session
\* directory is removed, which succeeds when nothing is left in it.
CleanupTempFiles(onDisk, audio, media) ==
    LET unlinked ==
            {ScratchFile("audio", audio[k].fileName) : k \in 1..Len(audio)}
            \cup MediaPaths(media)
            \cup {OutputPath, CombinedAudioPath, SubtitlePath}
        rest == onDisk \ unlinked
    IN  IF rest \subseteq {TempDir} THEN {} ELSE rest

\* Variant: the promise of createFinalVideo resolves whatever the exit
\* code of ffmpeg
RenderEnds_IgnoreExitCode(ok, outputExists) ==
    /\ pc = "render"
    /\ pc' = "responded"
    /\ LET written == scratch \cup (IF outputExists THEN {OutputPath} ELSE {})
       IN  IF outputExists
           THEN /\ response' = [kind |-> "video", status |-> 200]
                /\ completed' = completed \cup {"output"}
                      \cup (IF ok THEN {"render"} ELSE {})
                /\ scratch' = CleanupTempFiles(written, audioFiles, mediaFiles)
           ELSE /\ response' = ErrorResponse(
                        [template |-> "Output video file was not created"])
                /\ completed' = completed \cup (IF ok THEN {"render"} ELSE {})
                /\ scratch' = written
    /\ UNCHANGED <<conversation, audioTasks, batchStart, calls, settled,
                   audioResults, audioFiles, currentTime, characterTimeline,
                   wordTimeline, lastAlign, totalDuration, invoked, faults,
                   combinedAudio, mediaFiles, savedMediaFiles, imageOverlays,
                   sleep, subtitles, est, server, upload>>

\* createFinalVideo settles (ffmpeg exits; it may have written output.mp4
\* or not); the output file is looked for, read, the scratch files are
\* removed and the video is returned.  Any failure goes to the catch of
\* the route, which answers and removes nothing.
RenderEnds(ok, outputExists) ==
    /\ pc = "render"
    /\ pc' = "responded"
    /\ LET written == scratch \cup (IF outputExists THEN {OutputPath} ELSE {})
       IN  IF ok /\ outputExists
           THEN /\ response' = [kind |-> "video", status |-> 200]
                /\ completed' = completed \cup {"render", "output"}
                /\ scratch' = CleanupTempFiles(written, audioFiles, mediaFiles)
           ELSE IF ok
           THEN /\ response' = ErrorResponse(
                        [template |-> "Output video file was not created"])
                /\ completed' = completed \cup {"render"}
                /\ scratch' = written
           ELSE /\ response' = ErrorResponse([template |-> "ffmpeg error"])
                /\ scratch' = written
                /\ UNCHANGED completed
    /\ UNCHANGED <<conversation, audioTasks, batchStart, calls, settled,
                   audioResults, audioFiles, currentTime, characterTimeline,
                   wordTimeline, lastAlign, totalDuration, invoked, faults,
                   combinedAudio, mediaFiles, savedMediaFiles, imageOverlays,
                   sleep, subtitles, est, server, upload>>

\* ------------------------------------------------------------------------
\* Stand-alone runs of the estimators on one text and one duration
\* ------------------------------------------------------------------------
RunUniform ==
    /\ est.pc = "uniform"
    /\ est' = [est EXCEPT !.pc = "weighted",
                          !.uniform = EstimateUniform(est.text, est.duration)]
    /\ UNCHANGED <<requestVars, server, upload>>

RunWeighted ==
    /\ est.pc = "weighted"
    /\ est' = [est EXCEPT !.pc = "legacy",
                          !.weighted = EstimateWeighted(est.text, est.duration)]
    /\ UNCHANGED <<requestVars, server, upload>>

RunLegacy ==
    /\ est.pc = "legacy"
    /\ est' = [est EXCEPT !.pc = "done",
                          !.legacy = LegacyFallback(est.text, est.duration,
                                         FromInt(0), "stewie", <<1, 2>>)]
    /\ UNCHANGED <<requestVars, server, upload>>

\* ------------------------------------------------------------------------
\* Two requests on one server: the temp directory and the files in it
\* ------------------------------------------------------------------------
\* Bound of Date.now(), in ms since the server started
MaxClock == 1

\* The two generations the page starts at once
Requests == {1, 2}

\* The file names of a request with one turn, inside its temp directory
AudioNames == {"audio_0.wav", "audio_1.wav"}
ScratchNames ==
    AudioNames \cup {"combined_audio.wav", "subtitles.ass", "output.mp4"}

\* The steps of the handler that touch its temp directory, in program
\* order: the two clips written, each clip read for its alignment,
\* combineAudioFiles, the subtitle file, createFinalVideo, the output read.
FileSteps ==
    <<[reads |-> {}, writes |-> {"audio_0.wav"}],
      [reads |-> {}, writes |-> {"audio_1.wav"}],
      [reads |-> {"audio_0.wav"}, writes |-> {}],
      [reads |-> {"audio_1.wav"}, writes |-> {}],
      [reads |-> AudioNames, writes |-> {"combined_audio.wav"}],
      [reads |-> {}, writes |-> {"subtitles.ass"}],
      [reads |-> {"combined_audio.wav", "subtitles.ass"},
       writes |-> {"output.mp4"}],
      [reads |-> {"output.mp4"}, writes |-> {}]>>

\* The server before a request arrived.  disk holds the files under temp/,
\* each with the request that wrote it last; events records every access
\* of a request to a file of the other request (not in the source).
ServerStart ==
    [now |-> 0,
     sessions |-> [r \in Requests |->
                      [pc |-> "pending", sessionId |-> -1, step |-> 0]],
     dirs |-> {},
     disk |-> {},
     events |-> {}]

\* The request has been received and has not responded yet
Live(r) == server.sessions[r].pc \in {"running", "cleanup"}

\* const sessionId = Date.now().toString()
NewSessionId(r) == server.now

\* A millisecond passes
Tick ==
    /\ server.now < MaxClock
    /\ server' = [server EXCEPT !.now = server.now + 1]
    /\ UNCHANGED <<requestVars, est, upload>>

\* Request r arrives: session id, temp directory made unless it exists
Arrive(r) ==
    /\ server.sessions[r].pc = "pending"
    /\ LET sessionId == NewSessionId(r)
       IN  server' = [server EXCEPT
               !.sessions[r] = [pc |-> "running", sessionId |-> sessionId,
                                step |-> 1],
               !.dirs = server.dirs \cup {sessionId}]
    /\ UNCHANGED <<requestVars, est, upload>>

\* Request r runs its next step on the files of its temp directory.  A
\* file to read that is not there, or a write into a directory that is
\* gone, throws: the request answers with an error.
FileStep(r) ==
    /\ server.sessions[r].pc = "running"
    /\ LET session == server.sessions[r]
           tempDir == session.sessionId
           step == FileSteps[session.step]
           inDir == {f \in server.disk : f.dir = tempDir}
           missing == {n \in step.reads : \A f \in inDir : f.name # n}
           foreign == {f \in inDir : f.writer # r /\ Live(f.writer)}
       IN  IF missing # {} \/ (step.writes # {} /\ tempDir \notin server.dirs)
           THEN server' = [server EXCEPT !.sessions[r].pc = "failed"]
           ELSE server' = [server EXCEPT
                   !.sessions[r].step = session.step + 1,
                   !.sessions[r].pc =
                       IF session.step = Len(FileSteps) THEN "cleanup"
                       ELSE "running",
                   !.disk = {f \in server.disk :
                                f.dir # tempDir \/ f.name \notin step.writes}
                            \cup {[dir |-> tempDir, name |-> n, writer |-> r] :
                                     n \in step.writes},
                   !.events = server.events
                       \cup {[kind |-> "read", by |-> r, file |-> f] :
                               f \in {g \in foreign : g.name \in step.reads}}
                       \cup {[kind |-> "overwritten", by |-> r, file |-> f] :
                               f \in {g \in foreign : g.name \in step.writes}}]
    /\ UNCHANGED <<requestVars, est, upload>>

\* A step of request r fails for a reason of its own (a backend, ffmpeg):
\* the catch answers and removes nothing.
RequestFails(r) ==
    /\ server.sessions[r].pc = "running"
    /\ server' = [server EXCEPT !.sessions[r].pc = "failed"]
    /\ UNCHANGED <<requestVars, est, upload>>

\* Cleanup temp files of request r: every scratch name in its temp
\* directory unlinked, the directory removed, the video returned.
CleanupRequest(r) ==
    /\ server.sessions[r].pc = "cleanup"
    /\ LET tempDir == server.sessions[r].sessionId
           unlinked == {f \in server.disk :
                           f.dir = tempDir /\ f.name \in ScratchNames}
       IN  server' = [server EXCEPT
               !.sessions[r].pc = "done",
               !.disk = server.disk \ unlinked,
               !.dirs = server.dirs \ {tempDir},
               !.events = server.events
                   \cup {[kind |-> "deleted", by |-> r, file |-> f] :
                           f \in {g \in unlinked :
                                     g.writer # r /\ Live(g.writer)}}]
    /\ UNCHANGED <<requestVars, est, upload>>

\* ------------------------------------------------------------------------
\* POST of the upload-based route: clips uploaded with their metadata
\* ------------------------------------------------------------------------
\* Bound of the number of parts of the metadata
MaxParts == 3

LEGACY_GAP_DURATION == 200

UploadIdle == [pc |-> "idle"]
NoPart == [index |-> -1]

\* Start times the metadata may give to a part, in any order
PartStartTimes == {0, 1200, 2400}

PartTexts == <<Line1, Line2, Line3>>

\* metadata.parts: part j of the array has index j - 1, a stated duration of 1.5 s, a
\* text of its own and any of the start times
PartsOf(n) ==
    {[j \in 1..n |->
         [index |-> j - 1,
          startTime |-> t[j],
          duration |-> 1500,
          character |-> IF j % 2 = 1 THEN "stewie" ELSE "peter",
          text |-> PartTexts[((j - 1) % Len(PartTexts)) + 1]]] :
        t \in [1..n -> PartStartTimes]}

Metadatas == UNION {PartsOf(n) : n \in 1..MaxParts}

\* Words the local whisper may find in a clip: one it is confident of, one
\* it is not
WhisperWords ==
    <<[word |-> <<"a">>, start |-> FromInt(0), end |-> FromInt(400),
       confidence |-> <<9, 10>>],
      [word |-> <<"b">>, start |-> FromInt(400), end |-> FromInt(900),
       confidence |-> <<1, 2>>]>>

\* metadata.format.duration || part.duration, part.duration on an error
ActualDuration(part, actual, probeErr) ==
    IF probeErr THEN part.duration
    ELSE IF actual = 0 THEN part.duration ELSE actual

\* One entry of audioFiles per part; the file name audio_<index>.wav is
\* kept as the index
SavedAudioFiles(parts, actual, probeErr) ==
    [j \in 1..Len(parts) |->
        [fileName |-> parts[j].index,
         startTime |-> parts[j].startTime,
         duration |-> ActualDuration(parts[j], actual, probeErr),
         character |-> parts[j].character]]

RECURSIVE InsertByStartTime(_, _)
InsertByStartTime(sorted, a) ==
    IF sorted = <<>> THEN <<a>>
    ELSE IF Head(sorted).startTime <= a.startTime
    THEN <<Head(sorted)>> \o InsertByStartTime(Tail(sorted), a)
    ELSE <<a>> \o sorted

\* [...audioFiles].sort((a, b) => a.startTime - b.startTime): ascending,
\* files of equal startTime in their order in audioFiles
RECURSIVE SortByStartTime(_)
SortByStartTime(files) ==
    IF files = <<>> THEN <<>>
    ELSE InsertByStartTime(SortByStartTime(SubSeq(files, 1, Len(files) - 1)),
                           files[Len(files)])

\* metadata.parts.find(p => p.index === i)
FindPart(parts, i) ==
    LET found == {j \in 1..Len(parts) : parts[j].index = i}
    IN  IF found = {} THEN NoPart
        ELSE parts[CHOOSE j \in found : \A k \in found : j <= k]

\* The request arrives: the clips are saved and probed, the assets looked
\* for, the files sorted by start time, the combination started.
UploadReceive(actual, probeErr, assetsPresent) ==
    /\ upload.pc = "received"
    /\ LET files == SavedAudioFiles(upload.metadata.parts, actual, probeErr)
       IN  IF assetsPresent
           THEN upload' = [upload EXCEPT
                   !.audioFiles = files,
                   !.sortedAudioFiles = SortByStartTime(files),
                   !.pc = "combine"]
           ELSE upload' = [upload EXCEPT
                   !.audioFiles = files,
                   !.pc = "responded",
                   !.response = ErrorResponse([template |-> "not found"])]
    /\ UNCHANGED <<requestVars, est, server>>

\* The ffmpeg run that concatenates the sorted clips settles
UploadCombineEnds(ok) ==
    /\ upload.pc = "combine"
    /\ IF ok
       THEN upload' = [upload EXCEPT !.pc = "timing"]
       ELSE upload' = [upload EXCEPT
               !.pc = "responded",
               !.response = ErrorResponse([template |-> "ffmpeg error"])]
    /\ UNCHANGED <<requestVars, est, server>>

\* Outcomes of getWordTimestamps on one clip
WordTimestampOutcomes == {"words", "none", "error"}

\* One iteration of the loop over sortedAudioFiles: visibility interval,
\* words of the clip from whisper or from the text of audioMetadata, clock
\* advanced.  timedTexts is not in the source: it records, per iteration,
\* the file that was timed and the text looked up for it.
UploadTimingStep(outcome) ==
    /\ upload.pc = "timing"
    /\ LET i == upload.i
           sorted == upload.sortedAudioFiles
           audio == sorted[i + 1]
           audioMetadata == FindPart(upload.metadata.parts, i)
           now == upload.currentTime
           duration == FromInt(audio.duration)
           kept == SelectSeq(WhisperWords,
                             LAMBDA w : RLt(<<1, 2>>, w.confidence))
           words ==
               IF audioMetadata = NoPart THEN <<>>
               ELSE IF outcome = "words"
               THEN [k \in 1..Len(kept) |->
                        [text |-> kept[k].word,
                         startTime |-> RAdd(now, kept[k].start),
                         endTime |-> RAdd(now, kept[k].end),
                         character |-> audio.character,
                         confidence |-> kept[k].confidence]]
               ELSE LegacyFallback(audioMetadata.text, duration, now,
                                   audio.character,
                                   IF outcome = "none" THEN <<1, 2>>
                                   ELSE <<3, 10>>)
           last == i + 1 = Len(sorted)
       IN  upload' = [upload EXCEPT
               !.sequentialTimeline = Append(@,
                   [character |-> audio.character,
                    startTime |-> now,
                    endTime |-> RAdd(now, duration)]),
               !.wordTimeline = @ \o words,
               !.timedTexts = Append(@,
                   [fileName |-> audio.fileName,
                    found |-> audioMetadata # NoPart,
                    text |-> IF audioMetadata = NoPart THEN <<>>
                             ELSE audioMetadata.text]),
               !.currentTime =
                   IF last THEN RAdd(now, duration)
                   ELSE RAdd(RAdd(now, duration),
                             FromInt(LEGACY_GAP_DURATION)),
               !.i = i + 1,
               !.pc = IF last THEN "render" ELSE "timing"]
    /\ UNCHANGED <<requestVars, est, server>>

\* ------------------------------------------------------------------------
\* Specifications
\* ------------------------------------------------------------------------
InitRequest(conv, media, position, batch) ==
    /\ conversation = conv
    /\ pc = position
    /\ audioTasks = <<>>
    /\ batchStart = 0
    /\ calls = batch
    /\ settled = <<>>
    /\ audioResults = <<>>
    /\ audioFiles = <<>>
    /\ currentTime = FromInt(0)
    /\ characterTimeline = <<>>
    /\ wordTimeline = <<>>
    /\ lastAlign = NoAlign
    /\ totalDuration = Unset
    /\ invoked = {}
    /\ response = NoResponse
    /\ faults = 0
    /\ combinedAudio = <<>>
    /\ mediaFiles = media
    /\ savedMediaFiles = {}
    /\ imageOverlays = <<>>
    /\ scratch = {}
    /\ completed = {}
    /\ sleep = 0
    /\ subtitles = <<>>

\* One request to the video route
Init ==
    /\ \E conv \in Conversations, media \in Uploads :
          InitRequest(conv, media, "received", <<>>)
    /\ est = EstIdle
    /\ server = ServerStart
    /\ upload = UploadIdle

Next ==
    \/ Receive
    \/ \E i \in 1..BATCH_SIZE, actual \in MetadataDurations,
          probeErr \in BOOLEAN : AttemptSucceeds(i, actual, probeErr)
    \/ \E i \in 1..BATCH_SIZE, kind \in FailKinds : AttemptFails(i, kind)
    \/ \E i \in 1..BATCH_SIZE : BackoffElapses(i)
    \/ CooldownElapses
    \/ TimelineStep
    \/ \E outcome \in AlignOutcomes, probeErr \in BOOLEAN :
          AlignStep(outcome, probeErr)
    \/ \E assetsPresent \in BOOLEAN : Plan(assetsPresent)
    \/ \E ok \in BOOLEAN : CombineEnds(ok)
    \/ \E ok \in BOOLEAN : SubtitleEnds(ok)
    \/ \E ok \in BOOLEAN, outputExists \in BOOLEAN :
          RenderEnds(ok, outputExists)

Spec == Init /\ [][Next]_vars

\* What the handler does by itself once it can: its synchronous steps,
\* the local file writes, and the timers it sets (the 2 s delay between
\* batches, the backoff delay, and the 120 s timer that aborts an
\* outstanding fetch of generateAudio).  The fetch of the alignment backend
\* and the ffmpeg processes of combineAudioFiles and createFinalVideo have
\* no timer: nothing but their own answer ends them.
Fairness ==
    /\ WF_vars(Receive)
    /\ \A i \in 1..BATCH_SIZE : WF_vars(AttemptFails(i, "abort"))
    /\ \A i \in 1..BATCH_SIZE : WF_vars(BackoffElapses(i))
    /\ WF_vars(CooldownElapses)
    /\ WF_vars(TimelineStep)
    /\ WF_vars(\E assetsPresent \in BOOLEAN : Plan(assetsPresent))
    /\ WF_vars(\E ok \in BOOLEAN : SubtitleEnds(ok))

\* One request to the video route, scheduled as the event loop does
FairSpec == Spec /\ Fairness

\* One call of generateAudio on its own, for every retries argument
GenInit ==
    /\ \E character \in Characters, retries \in 0..MaxRetries,
          text \in {Line1, LineBlank} :
          InitRequest(<<>>, <<>>, "standalone",
                      <<NewCall(text, character, retries)>>)
    /\ est = EstIdle
    /\ server = ServerStart
    /\ upload = UploadIdle

GenNext ==
    \/ \E actual \in MetadataDurations, probeErr \in BOOLEAN :
          AttemptSucceeds(1, actual, probeErr)
    \/ \E kind \in FailKinds : AttemptFails(1, kind)
    \/ BackoffElapses(1)

GenSpec == GenInit /\ [][GenNext]_vars

\* The estimators on every text up to MaxLen characters
EstInit ==
    /\ InitRequest(<<>>, <<>>, "idle", <<>>)
    /\ \E text \in EstTexts, duration \in EstDurations :
          est = [pc |-> "uniform", text |-> text, duration |-> duration,
                 uniform |-> <<>>, weighted |-> <<>>, legacy |-> <<>>]
    /\ server = ServerStart
    /\ upload = UploadIdle

EstNext == RunUniform \/ RunWeighted \/ RunLegacy

EstSpec == EstInit /\ [][EstNext]_vars

\* Two requests to the video route on one server
ConcInit ==
    /\ InitRequest(<<>>, <<>>, "idle", <<>>)
    /\ est = EstIdle
    /\ server = ServerStart
    /\ upload = UploadIdle

ConcNext ==
    \/ Tick
    \/ \E r \in Requests : Arrive(r)
    \/ \E r \in Requests : FileStep(r)
    \/ \E r \in Requests : RequestFails(r)
    \/ \E r \in Requests : CleanupRequest(r)

ConcSpec == ConcInit /\ [][ConcNext]_vars

\* One request to the upload-based route
UploadInit ==
    /\ InitRequest(<<>>, <<>>, "idle", <<>>)
    /\ est = EstIdle
    /\ server = ServerStart
    /\ \E parts \in Metadatas :
          upload = [pc |-> "received",
                    metadata |-> [parts |-> parts],
                    audioFiles |-> <<>>,
                    sortedAudioFiles |-> <<>>,
                    i |-> 0,
                    currentTime |-> FromInt(0),
                    sequentialTimeline |-> <<>>,
                    wordTimeline |-> <<>>,
                    timedTexts |-> <<>>,
                    response |-> NoResponse]

UploadNext ==
    \/ \E actual \in MetadataDurations, probeErr \in BOOLEAN,
          assetsPresent \in BOOLEAN :
          UploadReceive(actual, probeErr, assetsPresent)
    \/ \E ok \in BOOLEAN : UploadCombineEnds(ok)
    \/ \E outcome \in WordTimestampOutcomes : UploadTimingStep(outcome)

UploadSpec == UploadInit /\ [][UploadNext]_vars

\* ------------------------------------------------------------------------
\* Properties
\* ------------------------------------------------------------------------
TasksBuilt == pc \notin {"received", "idle", "standalone"}
               /\ Len(conversation) >= 1

\* C1: a conversation of N >= 1 turns yields exactly 2N speech tasks; task
\* 2k is turn k's stewie line and task 2k+1 is turn k's peter line.
C1_TwoTasksPerTurn ==
    TasksBuilt =>
        /\ Len(audioTasks) = 2 * Len(conversation)
        /\ \A k \in 0..(Len(conversation) - 1) :
              /\ audioTasks[2 * k + 1] =
                    [text |-> conversation[k + 1].stewie,
                     character |-> "stewie"]
              /\ audioTasks[2 * k + 2] =
                    [text |-> conversation[k + 1].peter,
                     character |-> "peter"]

C1_Witness ==
    /\ pc = "synth"
    /\ Len(conversation) = MaxTurns
    /\ Len(audioTasks) = 2 * MaxTurns

SegmentEnd(a) == RAdd(a.startTime, a.duration)

\* C2: segment 0 starts at 0, segment i+1 starts at start[i] + duration[i]
\* + GAP, start times increase strictly, and neither the segments'
\* intervals nor the character-visibility intervals overlap.
C2_TimelineSequential ==
    /\ Len(audioFiles) >= 1 => audioFiles[1].startTime = FromInt(0)
    /\ \A i \in 1..(Len(audioFiles) - 1) :
          /\ audioFiles[i + 1].startTime =
                RAdd(SegmentEnd(audioFiles[i]), FromInt(GAP_DURATION))
          /\ RLt(audioFiles[i].startTime, audioFiles[i + 1].startTime)
    /\ \A i, j \in 1..Len(audioFiles) :
          i < j => RLt(SegmentEnd(audioFiles[i]), audioFiles[j].startTime)
    /\ \A i \in 1..Len(characterTimeline) :
          /\ characterTimeline[i].startTime = audioFiles[i].startTime
          /\ characterTimeline[i].endTime = SegmentEnd(audioFiles[i])
    /\ \A i, j \in 1..Len(characterTimeline) :
          i < j => RLt(characterTimeline[i].endTime,
                       characterTimeline[j].startTime)

C2_Witness ==
    /\ pc = "plan"
    /\ Len(audioFiles) = 2 * MaxTurns
    /\ Len(characterTimeline) = 2 * MaxTurns
    /\ \E i \in 1..Len(audioFiles) :
          audioFiles[i].duration = FromInt(FALLBACK_DURATION)
    /\ \E i \in 1..Len(audioFiles) :
          audioFiles[i].duration # FromInt(FALLBACK_DURATION)

AlternatingCharacter(i) == IF i % 2 = 1 THEN "stewie" ELSE "peter"

\* C3: whatever the order in which the calls of a batch resolve, clip i,
\* segment i and visibility interval i carry the character and text of task
\* i (A/B/A/B...), and the words follow the order of the segments.
C3_OrderIsTaskOrder ==
    /\ \A i \in 1..Len(audioResults) :
          /\ audioResults[i].character = audioTasks[i].character
          /\ audioResults[i].text = audioTasks[i].text
    /\ \A i \in 1..Len(audioFiles) :
          /\ audioFiles[i].character = audioTasks[i].character
          /\ audioFiles[i].text = audioTasks[i].text
    /\ \A i \in 1..Len(characterTimeline) :
          /\ characterTimeline[i].character = audioTasks[i].character
          /\ characterTimeline[i].character = AlternatingCharacter(i)
    /\ \A j \in 1..Len(wordTimeline) :
          /\ wordTimeline[j].character =
                audioTasks[wordTimeline[j].segment].character
          /\ \A k \in 1..(j - 1) :
                wordTimeline[k].segment <= wordTimeline[j].segment

C3_Witness ==
    /\ pc = "plan"
    /\ settled = <<2, 1>>
    /\ Len(characterTimeline) = 2 * MaxTurns
    /\ Len(wordTimeline) >= 2

RECURSIVE SumDurations(_)
SumDurations(clips) ==
    IF clips = <<>> THEN 0
    ELSE Head(clips).duration + SumDurations(Tail(clips))

\* C4: with n >= 1 clips, the total duration handed to the renderer is the
\* sum of the clip durations + (n-1)*GAP + the 1 s tail, hence not less
\* than the end of the last segment.
C4_TotalDuration ==
    totalDuration # Unset =>
        LET n == Len(audioResults)
        IN  /\ n >= 1
            /\ Len(audioFiles) = n
            /\ totalDuration =
                  FromInt(SumDurations(audioResults)
                          + (n - 1) * GAP_DURATION + TAIL_BUFFER)
            /\ totalDuration =
                  RAdd(RSub(currentTime, FromInt(GAP_DURATION)),
                       FromInt(TAIL_BUFFER))
            /\ RLe(SegmentEnd(audioFiles[n]), totalDuration)

C4_Witness ==
    /\ "render" \in invoked
    /\ Len(audioFiles) = 2 * MaxTurns
    /\ totalDuration # Unset

\* C5: generateAudio makes at most retries+1 attempts, returns on the
\* first successful attempt without attempting again, and throws only after
\* retries+1 failed attempts; every failed attempt before the last one is
\* followed by a retry.
C5_AttemptBound ==
    [][LET c == calls[1]
           d == calls'[1]
       IN  /\ d.attemptsMade <= d.retries + 1
           /\ d.attemptsMade \in {c.attemptsMade, c.attemptsMade + 1}
           /\ c.st \in {"resolved", "rejected"} => d = c
           /\ d.st = "rejected" =>
                 /\ d.attemptsMade = d.retries + 1
                 /\ d.result = NoClip
           /\ (c.st = "fetching" /\ d.st = "resolved") =>
                 /\ d.result # NoClip
                 /\ d.attemptsMade = c.attemptsMade
           /\ (c.st = "fetching" /\ d.st # "resolved"
                  /\ c.attemptsMade < c.retries + 1) =>
                 /\ d.st = "backoff"
                 /\ d.lastFailure \in FailKinds
           /\ c.st = "backoff" =>
                 /\ d.st = "fetching"
                 /\ d.attemptsMade = c.attemptsMade + 1]_vars

C5_Witness ==
    /\ pc = "standalone"
    /\ calls[1].retries = DEFAULT_RETRIES
    /\ calls[1].st = "resolved"
    /\ calls[1].attemptsMade = DEFAULT_RETRIES + 1
    /\ calls[1].timedOut

Rejected == {i \in 1..Len(calls) : calls[i].st = "rejected"}

\* C6 as stated: once a task has failed 4 times, whatever the failures, the
\* request has failed with an error naming the character and the attempt
\* count, and neither concatenation nor rendering was invoked.
C6_Original ==
    Rejected # {} =>
        /\ response.kind = "error"
        /\ "character" \in DOMAIN response.details
        /\ "attempts" \in DOMAIN response.details
        /\ invoked = {}

\* C6 amended: once a task has failed 4 times, the request has failed with
\* status 500 and the error of a task that exhausted its attempts; the
\* message names that task's character, and also the attempt count (4)
\* unless the last failure was a timeout, in which case it is the timeout
\* message; neither concatenation nor rendering was invoked.
C6_SynthesisFailureIsFatal ==
    Rejected # {} =>
        /\ response.kind = "error"
        /\ response.status = 500
        /\ \E j \in Rejected :
              /\ response.details = calls[j].error
              /\ response.details.character = calls[j].character
              /\ calls[j].attemptsMade = DEFAULT_RETRIES + 1
              /\ IF calls[j].lastFailure = "abort"
                 THEN /\ response.details.template = "TTS timeout"
                      /\ "attempts" \notin DOMAIN response.details
                 ELSE /\ response.details.template = "Failed to generate"
                      /\ response.details.attempts = DEFAULT_RETRIES + 1
        /\ invoked = {}

C6_Witness ==
    /\ pc = "responded"
    /\ Cardinality(Rejected) = 2
    /\ response.kind = "error"
    /\ response.details.template = "Failed to generate"

\* C7 as stated: when generateAudio throws and one or more attempts timed
\* out, the error is the timeout error.
C7_Original ==
    (pc = "standalone" /\ calls[1].st = "rejected" /\ calls[1].timedOut)
        => calls[1].error.template = "TTS timeout"

\* C7 amended: when generateAudio throws, the error is the timeout error
\* exactly when the last attempt failed by the timeout; otherwise it is the
\* generic 'Failed to generate' error, earlier timeouts notwithstanding.
C7_TimeoutOfLastAttempt ==
    (pc = "standalone" /\ calls[1].st = "rejected") =>
        IF calls[1].lastFailure = "abort"
        THEN calls[1].error.template = "TTS timeout"
        ELSE calls[1].error.template = "Failed to generate"

C7_Witness ==
    /\ pc = "standalone"
    /\ calls[1].st = "rejected"
    /\ calls[1].lastFailure = "abort"
    /\ calls[1].error.template = "TTS timeout"
    /\ calls[1].attemptsMade = calls[1].retries + 1

\* C8: whatever the alignment backend answers for a segment, the alignment
\* step raises nothing to the request and the loop goes on; the backend's
\* timings are used exactly when it returned at least one word segment,
\* and the estimator's output for the segment's text otherwise.
C8_AlignmentNeverFails ==
    [][pc = "align" =>
          /\ pc' \in {"align", "plan"}
          /\ response' = NoResponse
          /\ Len(characterTimeline') = Len(characterTimeline) + 1
          /\ LET a == lastAlign'
                 seg == audioFiles[a.segment]
             IN  /\ a.segment = Len(characterTimeline')
                 /\ ~a.raised
                 /\ a.source = "whisper" <=>
                       (a.outcome.kind = "ok" /\ Len(a.outcome.segs) >= 1)
                 /\ a.source = "whisper" =>
                       Len(a.timings) = Len(a.outcome.segs)
                 /\ a.source # "whisper" =>
                       a.timings \in
                          {EstimateUniform(seg.text, d) :
                              d \in {FromInt(FALLBACK_DURATION), seg.duration,
                                     FromInt(seg.buffer.actual)}}]_vars

C8_Witness ==
    /\ pc = "align"
    /\ lastAlign.segment = 1
    /\ lastAlign.outcome.kind = "badjson"
    /\ lastAlign.source = "estimator"
    /\ Len(lastAlign.timings) >= 1
    /\ response = NoResponse

\* The words of a text, read off the text by position: the maximal runs
\* of characters other than the space that hold a non-whitespace character.
RunStarts(text) ==
    {i \in 1..Len(text) : text[i] # Space /\ (i = 1 \/ text[i - 1] = Space)}

RunEnd(text, i) ==
    CHOOSE j \in i..Len(text) :
        /\ \A k \in i..j : text[k] # Space
        /\ j = Len(text) \/ text[j + 1] = Space

WordStarts(text) ==
    {i \in RunStarts(text) :
        \E k \in i..RunEnd(text, i) : text[k] \notin Whitespace}

NthWordStart(text, n) ==
    CHOOSE i \in WordStarts(text) :
        Cardinality({j \in WordStarts(text) : j < i}) = n - 1

ExpectedWords(text) ==
    [n \in 1..Cardinality(WordStarts(text)) |->
        SubSeq(text, NthWordStart(text, n),
               RunEnd(text, NthWordStart(text, n)))]

RECURSIVE SumSpans(_)
SumSpans(timings) ==
    IF timings = <<>> THEN FromInt(0)
    ELSE RAdd(RSub(Head(timings).end, Head(timings).start),
              SumSpans(Tail(timings)))

\* One entry per word in text order, starting at 0, each word starting
\* where the previous one ended, the last one ending at the duration.
Contiguous(timings, text, duration) ==
    LET words == ExpectedWords(text)
        n == Len(words)
    IN  /\ Len(timings) = n
        /\ \A k \in 1..n : timings[k].word = words[k]
        /\ timings[1].start = FromInt(0)
        /\ \A k \in 1..(n - 1) :
              /\ timings[k + 1].start = timings[k].end
              /\ RLe(timings[k].start, timings[k + 1].start)
        /\ \A k \in 1..n : RLe(timings[k].start, timings[k].end)
        /\ timings[n].end = duration
        /\ SumSpans(timings) = duration

\* C9: for a text with at least one word and a duration > 0, the uniform
\* and the weighted estimator both return one entry per word in text
\* order, contiguous from 0 to the duration; under the uniform policy each
\* word spans duration/wordCount ("a bb ccc", 3.0: three 1.0 s words).
C9_EstimatorCoversDuration ==
    (est.pc = "done" /\ Len(ExpectedWords(est.text)) >= 1
        /\ RLt(FromInt(0), est.duration)) =>
        /\ Contiguous(est.uniform, est.text, est.duration)
        /\ Contiguous(est.weighted, est.text, est.duration)
        /\ \A k \in 1..Len(est.uniform) :
              RSub(est.uniform[k].end, est.uniform[k].start) =
                 RDiv(est.duration, FromInt(Len(ExpectedWords(est.text))))
        /\ (est.text = ExampleText /\ est.duration = FromInt(3000)) =>
              est.uniform =
                 <<[word |-> <<"a">>, start |-> FromInt(0),
                    end |-> FromInt(1000)],
                   [word |-> <<"b", "b">>, start |-> FromInt(1000),
                    end |-> FromInt(2000)],
                   [word |-> <<"c", "c", "c">>, start |-> FromInt(2000),
                    end |-> FromInt(3000)]>>

C9_Witness ==
    /\ est.pc = "done"
    /\ est.text = ExampleText
    /\ est.duration = FromInt(3000)
    /\ Len(est.uniform) = 3
    /\ Len(est.weighted) = 3
    /\ est.weighted[1].end # est.uniform[1].end

OnlySpaces(text) == \A k \in 1..Len(text) : text[k] = Space

\* C10: for a text that is empty or made of spaces only, and any duration,
\* the uniform estimator, the weighted estimator and the legacy
\* words-per-second fallback all return an empty word sequence.
C10_EmptyTextNoWords ==
    (est.pc = "done" /\ OnlySpaces(est.text)) =>
        /\ est.uniform = <<>>
        /\ est.weighted = <<>>
        /\ est.legacy = <<>>

C10_Witness ==
    /\ est.pc = "done"
    /\ Len(est.text) = 2
    /\ OnlySpaces(est.text)
    /\ est.duration = FromInt(0)
    /\ est.legacy = <<>>

WordsOf(i) == SelectSeq(wordTimeline, LAMBDA w : w.segment = i)

InsideSegment(w) ==
    LET seg == audioFiles[w.segment]
    IN  /\ RLe(seg.startTime, w.startTime)
        /\ RLe(w.startTime, SegmentEnd(seg))
        /\ RLe(seg.startTime, w.endTime)
        /\ RLe(w.endTime, SegmentEnd(seg))

\* C11: every entry of the global word timeline has its startTime and its
\* endTime inside the interval [startTime, startTime + duration] of its
\* segment, and within one segment the start times and the end times are
\* non-decreasing, whether the words came from the alignment backend or
\* from the estimator.
C11_WordsInsideSegment ==
    /\ \A j \in 1..Len(wordTimeline) : InsideSegment(wordTimeline[j])
    /\ \A i \in 1..Len(audioFiles) :
          LET ws == WordsOf(i)
          IN  \A k \in 1..(Len(ws) - 1) :
                 /\ RLe(ws[k].startTime, ws[k + 1].startTime)
                 /\ RLe(ws[k].endTime, ws[k + 1].endTime)

\* C12: when the alignment backend fails for a segment, the words put on
\* the timeline for that segment are the estimator's words for the
\* segment's recorded duration, so that they span exactly the segment's
\* interval, and the request goes on.
C12_FallbackUsesSegmentDuration ==
    (lastAlign.segment >= 1 /\ lastAlign.source # "whisper") =>
        LET seg == audioFiles[lastAlign.segment]
            ws == WordsOf(lastAlign.segment)
        IN  /\ ws = GlobalWords(seg, EstimateUniform(seg.text, seg.duration))
            /\ Len(ws) >= 1 =>
                  /\ ws[1].startTime = seg.startTime
                  /\ ws[Len(ws)].endTime = SegmentEnd(seg)
            /\ pc \in {"align", "plan"} => response = NoResponse

\* C13: every word retained in the global word timeline has an endTime
\* strictly greater than its startTime, whatever word segments the
\* alignment backend returned.
C13_WordsHavePositiveLength ==
    \A j \in 1..Len(wordTimeline) :
        RLt(wordTimeline[j].startTime, wordTimeline[j].endTime)

RECURSIVE TrackTime(_, _)
TrackTime(track, k) ==
    IF k = 0 THEN 0 ELSE track[k].length + TrackTime(track, k - 1)

\* Where clip i (1-based) begins in the combined track
OffsetOfClip(track, i) ==
    LET p == CHOOSE q \in 1..Len(track) :
                 track[q].kind = "clip" /\ track[q].index = i - 1
    IN  FromInt(TrackTime(track, p - 1))

\* The clips in segment order, one silence of the timeline's gap between
\* each pair of adjacent clips, none after the last.
GapsAsInTimeline(track, n) ==
    /\ Len(track) = 2 * n - 1
    /\ \A i \in 1..n :
          track[2 * i - 1].kind = "clip" /\ track[2 * i - 1].index = i - 1
    /\ \A i \in 1..(n - 1) :
          track[2 * i].kind = "gap" /\ track[2 * i].length = GAP_DURATION

\* By how much the recorded durations of the clips before clip i exceed the
\* time of the audio they hold
RECURSIVE Drift(_)
Drift(i) ==
    IF i <= 1 THEN FromInt(0)
    ELSE RAdd(Drift(i - 1),
              RSub(audioFiles[i - 1].duration,
                   FromInt(audioFiles[i - 1].buffer.actual)))

\* C14 as stated: the combined track holds the clips in segment order with
\* exactly n-1 silences of the timeline's gap, none after the last, and
\* hence every clip i begins in the track at startTime[i].
C14_Original ==
    combinedAudio # <<>> =>
        /\ GapsAsInTimeline(combinedAudio, Len(audioFiles))
        /\ \A i \in 1..Len(audioFiles) :
              OffsetOfClip(combinedAudio, i) = audioFiles[i].startTime

\* C14 amended: the combined track holds the clips in segment order with
\* exactly n-1 silences of the timeline's gap (0.2 s), none after the
\* last; clip i begins in the track at startTime[i] minus the amount by
\* which the recorded durations of the earlier clips exceed the audio they
\* hold, hence at startTime[i] when every earlier clip's duration was
\* measured and not the 3 s fallback.
C14_SameGapsAsTimeline ==
    combinedAudio # <<>> =>
        /\ GapsAsInTimeline(combinedAudio, Len(audioFiles))
        /\ \A i \in 1..Len(audioFiles) :
              /\ OffsetOfClip(combinedAudio, i) =
                    RSub(audioFiles[i].startTime, Drift(i))
              /\ (\A j \in 1..(i - 1) :
                     audioFiles[j].duration =
                        FromInt(audioFiles[j].buffer.actual))
                  => OffsetOfClip(combinedAudio, i) = audioFiles[i].startTime

C14_Witness ==
    /\ Len(audioFiles) = 2 * MaxTurns
    /\ Len(combinedAudio) = 4 * MaxTurns - 1
    /\ audioFiles[1].duration = FromInt(audioFiles[1].buffer.actual)
    /\ audioFiles[2].duration # FromInt(audioFiles[2].buffer.actual)
    /\ OffsetOfClip(combinedAudio, 2) = audioFiles[2].startTime
    /\ OffsetOfClip(combinedAudio, 3) # audioFiles[3].startTime

Planned == totalDuration # Unset

VideoNames ==
    {mediaFiles[k].filename :
        k \in {j \in 1..Len(mediaFiles) : mediaFiles[j].type = "video"}}

\* C15: every overlay interval the planner creates has a finite startTime
\* and a finite endTime, whatever the shape of the cue (as the interface
\* declares it, or as the dialogue generator emits it, with a triggerWord
\* and a null or absent duration); no interval, hence no duration, is set
\* for a cue that names an uploaded video.
C15_OverlayTimesFinite ==
    Planned =>
        \A k \in 1..Len(imageOverlays) :
            /\ IsFinite(imageOverlays[k].startTime)
            /\ IsFinite(imageOverlays[k].endTime)
            /\ imageOverlays[k].imagePath \notin VideoNames

\* The cues of the conversation whose filename is among the saved media
\* files, in the order of the turns, each with the number of its turn
RECURSIVE ResolvedCues(_)
ResolvedCues(k) ==
    IF k > Len(conversation) THEN <<>>
    ELSE LET cues == SelectSeq(conversation[k].imageOverlays,
                               LAMBDA c : c.filename \in savedMediaFiles)
         IN  [j \in 1..Len(cues) |-> [turn |-> k, cue |-> cues[j]]]
             \o ResolvedCues(k + 1)

StripUnresolved(conv) ==
    [k \in 1..Len(conv) |->
        [conv[k] EXCEPT !.imageOverlays =
            SelectSeq(@, LAMBDA c : c.filename \in savedMediaFiles)]]

\* C16: a cue whose filename is not among the saved media files gives no
\* overlay interval and no error; every other cue, of the same and of the
\* other turns, gives its interval, in order; tasks, segments, words and
\* total duration are those of the conversation without the unresolved
\* cues.
C16_UnresolvedCueDropped ==
    Planned =>
        LET rc == ResolvedCues(1)
        IN  /\ Len(imageOverlays) = Len(rc)
            /\ \A k \in 1..Len(rc) :
                  /\ imageOverlays[k].imagePath = rc[k].cue.filename
                  /\ imageOverlays[k].imagePath \in savedMediaFiles
                  /\ imageOverlays[k].description = rc[k].cue.description
                  /\ imageOverlays[k].startTime =
                        RAdd(audioFiles[2 * rc[k].turn - 1].startTime,
                             ToNumber(rc[k].cue.startTime))
            /\ audioTasks = BuildTasks(StripUnresolved(conversation))
            /\ Len(audioFiles) = Len(audioTasks)
            /\ Len(characterTimeline) = Len(audioTasks)
            /\ totalDuration = TotalDuration(currentTime)
            /\ response.kind = "error" =>
                  response.details.template \in
                     {"Asset not found", "ffmpeg error", "write error",
                      "Output video file was not created"}

C16_Witness ==
    /\ pc = "combine"
    /\ Len(conversation) = 2
    /\ savedMediaFiles = {"x.png"}
    /\ \E k \in 1..2 : \E j \in 1..Len(conversation[k].imageOverlays) :
          conversation[k].imageOverlays[j].filename = "missing.png"
    /\ Len(imageOverlays) = 4
    /\ imageOverlays[4].startTime = audioFiles[3].startTime
    /\ imageOverlays[4].startTime # FromInt(0)
    /\ response = NoResponse

\* C17: when the background video or a character image is missing, the
\* request fails before any synthesis call was issued: no task list, no
\* call, no clip by the time the request fails on the missing asset.
C17_AssetCheckBeforeSynthesis ==
    (response.kind = "error"
        /\ response.details.template = "Asset not found") =>
        /\ audioTasks = <<>>
        /\ calls = <<>>
        /\ audioResults = <<>>

\* C18: when the request has ended, with the video or with an error of
\* any step, no scratch file or directory of the request is left on disk.
C18_NoScratchLeft ==
    pc = "responded" => scratch = {}

\* C19: the response of a request is either the video, returned only
\* after every step ended well, the renderer included, and the output
\* file exists, or a JSON error with status 500, the error label and a
\* detail; there is no response before the request ends, and no video
\* after a step has failed.
C19_VideoOrError ==
    /\ pc # "responded" => response = NoResponse
    /\ pc = "responded" =>
          \/ /\ response = [kind |-> "video", status |-> 200]
             /\ completed = {"combine", "subtitle", "render", "output"}
             /\ invoked = {"combine", "subtitle", "render"}
             /\ Len(audioResults) = Len(audioTasks)
             /\ Rejected = {}
          \/ /\ response.kind = "error"
             /\ response.status = 500
             /\ response.error = "Failed to process video"
             /\ response.details.template # "none"
             /\ completed # {"combine", "subtitle", "render", "output"}

C19_Witness ==
    /\ pc = "responded"
    /\ response.kind = "video"
    /\ Len(audioFiles) = 2 * MaxTurns
    /\ faults = MaxFaults

InFlight ==
    Cardinality({i \in 1..Len(calls) : calls[i].st \in {"fetching", "backoff"}})

\* C20: at no time are more than BATCH_SIZE synthesis tasks of the request
\* in flight; the tasks of the next batch are started only when every task
\* of the batches before has returned its clip and the 2 s delay that
\* followed has elapsed; the delay is awaited between batches only, not
\* after the last batch.
C20_BatchesInSequence ==
    [][/\ InFlight <= BATCH_SIZE
       /\ InFlight' <= BATCH_SIZE
       /\ pc = "synth" => Len(calls') <= Len(calls)
       /\ batchStart' # batchStart =>
             /\ pc = "cooldown"
             /\ sleep = COOLDOWN_MS
             /\ calls = <<>>
             /\ batchStart' = batchStart + BATCH_SIZE
             /\ Len(audioResults) = batchStart'
             /\ \A k \in 1..Len(audioResults) : audioResults[k] # NoClip
             /\ Len(calls') \in 1..BATCH_SIZE
             /\ \A k \in 1..Len(calls') :
                   /\ calls'[k].text = audioTasks[batchStart' + k].text
                   /\ calls'[k].attemptsMade = 1
       /\ pc' = "cooldown" =>
             /\ sleep' = COOLDOWN_MS
             /\ Len(audioResults') < Len(audioTasks')
       /\ (pc = "synth" /\ pc' = "timeline") =>
             /\ sleep' = 0
             /\ Len(audioResults') = Len(audioTasks')]_vars

C20_Witness ==
    /\ pc = "synth"
    /\ batchStart = BATCH_SIZE
    /\ Len(audioResults) = BATCH_SIZE
    /\ InFlight = BATCH_SIZE
    /\ calls[1].st = "backoff"

\* ------------------------------------------------------------------------
\* C21: every request eventually ends with a response, even if a backend
\* call never answers (every call to the synthesis backend, the alignment
\* backend and the renderer is bounded by a timeout).
C21_EveryRequestResponds == <>(response.kind # "none")

\* ------------------------------------------------------------------------
\* C22: of two requests processed concurrently, also when they start in the
\* same millisecond, neither reads, overwrites or deletes a scratch file
\* written by the other: the temp directories of live requests differ.
C22_RequestsDoNotInterfere ==
    /\ server.events = {}
    /\ \A r1, r2 \in Requests :
          r1 # r2 /\ Live(r1) /\ Live(r2) =>
             server.sessions[r1].sessionId # server.sessions[r2].sessionId

\* ------------------------------------------------------------------------
\* The segment a turn starts with: segment 2k for turn k counted from 0
FirstSegment(turn) == audioFiles[2 * (turn - 1) + 1]

\* C23: for each resolved media cue of turn k the overlay interval starts
\* at the startTime of segment 2k plus the cue's offset and ends at that
\* start plus the cue's duration; the intervals come in turn order, then
\* cue order.
C23_OverlayIntervals ==
    Planned =>
        LET rc == ResolvedCues(1)
        IN  /\ Len(imageOverlays) = Len(rc)
            /\ \A j \in 1..Len(rc) :
                  LET start == RAdd(FirstSegment(rc[j].turn).startTime,
                                    ToNumber(rc[j].cue.startTime))
                  IN  /\ imageOverlays[j].startTime = start
                      /\ imageOverlays[j].endTime =
                            RAdd(start, ToNumber(rc[j].cue.duration))

\* Two turns with resolved cues: the last interval is the typed cue of the
\* second turn, which starts with its turn, after 0, and lasts 3 s.
C23_Witness ==
    /\ Planned
    /\ Len(conversation) = 2
    /\ Len(imageOverlays) = 4
    /\ imageOverlays[1].startTime = FromInt(500)
    /\ imageOverlays[1].endTime = FromInt(2500)
    /\ RLt(FromInt(0), imageOverlays[4].startTime)
    /\ imageOverlays[4].endTime =
          RAdd(imageOverlays[4].startTime, FromInt(3000))

\* ------------------------------------------------------------------------
\* The text has a character that is not whitespace
NonBlank(text) == \E k \in 1..Len(text) : text[k] \notin Whitespace

\* C24: the global word timeline holds, for each segment in segment order,
\* exactly the non-blank local words of the segment in the order in which
\* they were returned, each shifted by the segment's startTime and tagged
\* with the segment's character; no entry has an empty or blank text.
C24_WordTimelineContents ==
    [][pc = "align" =>
          LET a == lastAlign'
              seg == audioFiles[a.segment]
              old == Len(wordTimeline)
              local == SelectSeq(a.timings, LAMBDA t : NonBlank(t.word))
          IN  /\ Len(wordTimeline') = old + Len(local)
              /\ \A j \in 1..old : wordTimeline'[j] = wordTimeline[j]
              /\ \A j \in 1..old : wordTimeline[j].segment < a.segment
              /\ \A j \in 1..Len(local) :
                    LET w == wordTimeline'[old + j]
                    IN  /\ w.text = local[j].word
                        /\ w.startTime = RAdd(seg.startTime, local[j].start)
                        /\ w.endTime = RAdd(seg.startTime, local[j].end)
                        /\ w.character = seg.character
                        /\ w.segment = a.segment
              /\ \A j \in 1..Len(wordTimeline') :
                    NonBlank(wordTimeline'[j].text)]_vars

\* The second segment was aligned by the backend, which returned three
\* words, one of them blank: two words of the segment are on the timeline,
\* after the words of the first segment.
C24_Witness ==
    /\ lastAlign.segment = 2
    /\ lastAlign.source = "whisper"
    /\ Len(lastAlign.timings) = 3
    /\ Len(WordsOf(2)) = 2
    /\ Len(WordsOf(1)) >= 1
    /\ wordTimeline = WordsOf(1) \o WordsOf(2)

\* ------------------------------------------------------------------------
\* The maximal runs of non-whitespace characters of a text, in order
TokenStarts(text) ==
    {i \in 1..Len(text) :
        text[i] \notin Whitespace /\ (i = 1 \/ text[i - 1] \in Whitespace)}

TokenEnd(text, i) ==
    CHOOSE j \in i..Len(text) :
        /\ \A k \in i..j : text[k] \notin Whitespace
        /\ j = Len(text) \/ text[j + 1] \in Whitespace

NthTokenStart(text, n) ==
    CHOOSE i \in TokenStarts(text) :
        Cardinality({j \in TokenStarts(text) : j < i}) = n - 1

Tokens(text) ==
    [n \in 1..Cardinality(TokenStarts(text)) |->
        SubSeq(text, NthTokenStart(text, n),
               TokenEnd(text, NthTokenStart(text, n)))]

WordsOfTimings(timings) == [k \in 1..Len(timings) |-> timings[k].word]

\* C25: the words the estimators produce are exactly the maximal runs of
\* non-whitespace characters of the text, in order, also for a text with
\* tabs, newlines or repeated spaces; no word is empty or contains a
\* whitespace character.
C25_WordsAreNonWhitespaceRuns ==
    est.pc = "done" =>
        /\ WordsOfTimings(est.uniform) = Tokens(est.text)
        /\ WordsOfTimings(est.weighted) = Tokens(est.text)
        /\ \A k \in 1..Len(est.uniform) :
              /\ est.uniform[k].word # <<>>
              /\ \A j \in 1..Len(est.uniform[k].word) :
                    est.uniform[k].word[j] \notin Whitespace

\* ------------------------------------------------------------------------
\* 2 s after attempt 0, and twice the previous delay after each later one
RECURSIVE BackoffOf(_)
BackoffOf(attempt) ==
    IF attempt = 0 THEN 2000 ELSE 2 * BackoffOf(attempt - 1)

\* C26: after failed attempt a (0-based) that is not the last allowed one,
\* generateAudio waits 2^(a+1) seconds before the next attempt (2 s, 4 s,
\* 8 s with retries = 3); it does not wait after the final failed attempt,
\* and it starts an attempt only when no attempt of the task is
\* outstanding.
C26_ExponentialBackoff ==
    [][LET c == calls[1]
           d == calls'[1]
       IN  /\ (c.st = "fetching" /\ d.st \in {"backoff", "rejected"}) =>
                 IF c.attempt < c.retries
                 THEN /\ d.st = "backoff"
                      /\ d.waitTime = BackoffOf(c.attempt)
                      /\ d.attemptsMade = c.attemptsMade
                 ELSE /\ d.st = "rejected"
                      /\ d.waitTime = 0
           /\ d.attemptsMade # c.attemptsMade =>
                 /\ c.st = "backoff"
                 /\ d.st = "fetching"
                 /\ d.attempt = c.attempt + 1
                 /\ d.attemptsMade = c.attemptsMade + 1
           /\ c.st \in {"rejected", "resolved"} => d = c]_vars

\* The third attempt of a call with the default retries failed: 8 s
C26_Witness ==
    /\ Len(calls) = 1
    /\ calls[1].retries = DEFAULT_RETRIES
    /\ calls[1].st = "backoff"
    /\ calls[1].attempt = 2
    /\ calls[1].waitTime = 8000

\* ------------------------------------------------------------------------
\* C27: when the probe of a received clip fails or reports no duration,
\* generateAudio still returns on that attempt, with duration 3.0 and
\* without using up a retry; every clip it returns has a duration > 0.
C27_ProbeFailureIsNotAnError ==
    [][LET c == calls[1]
           d == calls'[1]
       IN  /\ (c.st = "fetching" /\ faults' > faults) =>
                 /\ d.st = "resolved"
                 /\ d.result.duration = FALLBACK_DURATION
                 /\ d.attempt = c.attempt
                 /\ d.attemptsMade = c.attemptsMade
                 /\ d.error = NoError
           /\ (c.st = "fetching" /\ d.st = "resolved"
                  /\ faults' = faults) =>
                 d.result.duration = d.result.buffer.actual
           /\ d.st = "resolved" => d.result.duration > 0]_vars

\* The first attempt received a clip of 1 s and ffprobe failed on it
C27_Witness ==
    /\ Len(calls) = 1
    /\ calls[1].st = "resolved"
    /\ calls[1].attemptsMade = 1
    /\ calls[1].result.buffer.actual = 1000
    /\ calls[1].result.duration = FALLBACK_DURATION
    /\ faults = 1

\* ------------------------------------------------------------------------
\* The time a subtitle cue shows, in centiseconds
AssCentis(t) ==
    ((t.hours * 60 + t.minutes) * 60 + t.secs) * 100 + t.centiseconds

\* One cue per entry of the word timeline, in order, in the style of the
\* entry's character
OneCuePerWord ==
    /\ Len(subtitles) = Len(wordTimeline)
    /\ \A k \in 1..Len(subtitles) :
          /\ subtitles[k].style =
                (IF wordTimeline[k].character = "stewie" THEN "Stewie"
                 ELSE "Peter")
          /\ subtitles[k].text = Trim(wordTimeline[k].text)
          /\ subtitles[k].start = FormatAssTime(wordTimeline[k].startTime)
          /\ subtitles[k].end = FormatAssTime(wordTimeline[k].endTime)

\* C28: the subtitle serializer emits exactly one Dialogue cue per entry of
\* the word timeline, in timeline order, styled Stewie or Peter after the
\* entry's character, and no two cues overlap in time: each cue ends no
\* later than the next cue starts.
C28_SubtitleCues ==
    "subtitle" \in completed =>
        /\ OneCuePerWord
        /\ \A k \in 1..(Len(subtitles) - 1) :
              AssCentis(subtitles[k].end) <= AssCentis(subtitles[k + 1].start)

\* ------------------------------------------------------------------------
\* The request has answered with the error of a synthesis task
SynthesisFailed ==
    /\ response.kind = "error"
    /\ response.details.template \in {"TTS timeout", "Failed to generate"}

\* C29 as stated: once a request has responded with an error because a
\* synthesis task exhausted its retries, no further call to the synthesis
\* backend is issued for it: no task of a later batch is started and the
\* other task of the failing batch makes no further attempt.
C29_Original ==
    [][SynthesisFailed =>
          /\ batchStart' = batchStart
          /\ Len(calls') = Len(calls)
          /\ \A i \in 1..Len(calls) :
                calls'[i].attemptsMade = calls[i].attemptsMade]_vars

\* C29 amended: once a request has responded with an error because a
\* synthesis task exhausted its retries, no task of a later batch is ever
\* started; the other task of the failing batch is not cancelled: it may
\* make its remaining attempts, retries + 1 in all at most, and whatever
\* it returns is dropped (no clip is collected, the response stays).
C29_NoLaterBatch ==
    [][SynthesisFailed =>
          /\ batchStart' = batchStart
          /\ Len(calls') = Len(calls)
          /\ \A i \in 1..Len(calls) :
                /\ calls'[i].text = calls[i].text
                /\ calls'[i].character = calls[i].character
                /\ calls'[i].attemptsMade \in
                      {calls[i].attemptsMade, calls[i].attemptsMade + 1}
                /\ calls'[i].attemptsMade <= DEFAULT_RETRIES + 1
          /\ audioResults' = audioResults
          /\ audioFiles' = audioFiles
          /\ invoked' = invoked
          /\ response' = response
          /\ pc' = "responded"]_vars

\* Both tasks of the failing batch exhausted their attempts: the second
\* one went on after the request had answered with the error of the first
C29_Witness ==
    /\ SynthesisFailed
    /\ Cardinality(Rejected) = 2
    /\ \A i \in Rejected : calls[i].attemptsMade = DEFAULT_RETRIES + 1
    /\ audioFiles = <<>>
    /\ pc = "responded"

\* ------------------------------------------------------------------------
\* The part of the metadata a saved file was uploaded for
PartOfFile(fileName) ==
    LET parts == upload.metadata.parts
    IN  parts[CHOOSE j \in 1..Len(parts) : parts[j].index = fileName]

\* C30: in the upload-based route, once the files are sorted by startTime,
\* the text used for the word timing of the segment at sorted position i is
\* the text of the part whose audio file sits at position i, also when the
\* startTime order of the parts differs from their index order.
C30_TextOfSameUpload ==
    upload.pc \in {"timing", "render"} =>
        \A k \in 1..Len(upload.timedTexts) :
            LET e == upload.timedTexts[k]
            IN  /\ e.fileName = upload.sortedAudioFiles[k].fileName
                /\ e.found
                /\ e.text = PartOfFile(e.fileName).text

====
